---- MODULE Spec2Model ----
(***************************************************************************)
(* A model of narwhal's Cast and CastCollection (src/narwhal/cast.py).     *)
(*                                                                         *)
(* Objects live in a heap: `heap` is the sequence of Cast objects created  *)
(* so far (a cast's identity is its index) and `dicts` the sequence of     *)
(* property dictionaries; a cast refers to its dictionary by index, so two *)
(* casts may refer to the same dictionary object, as in Python.            *)
(***************************************************************************)
EXTENDS Integers, Sequences, FiniteSets, TLC

\* Longest primary vector handed to a constructor.
MaxLen == 2
\* Number of state-changing calls in one run.
MaxOps == 3
\* Number of casts constructed in one run.
MaxCasts == 2
\* Number of Cast objects (constructed or copied) alive in one run.
MaxHeap == 4
\* Number of casts in the collection under test.
MaxColl == 2
\* Number of state-changing calls in one run on a collection.
MaxCollOps == 2
\* Number of casts along a transect.
MaxInner == 3

VARIABLES
    heap,    \* Seq of Cast objects: [type, primarykey, data, fields, props, len]
    dicts,   \* Seq of property dictionaries (name -> tagged value)
    coll,    \* CastCollection.casts of the collection under test: Seq of cast ids
    origin,  \* origin[i]: the cast that cast i was deep-copied from, 0 if constructed
    last,    \* the last call: its name, arguments, result and the heap before it
    nops     \* number of state-changing calls made

vars == <<heap, dicts, coll, origin, last, nops>>

----------------------------------------------------------------------------
(* Floating-point values.  A number is a normalised fraction <<n, d>>, d > 0;  *)
(* <<1, 0>> and <<-1, 0>> are the infinities and the empty tuple is the        *)
(* missing value NaN.  Arithmetic propagates NaN and every comparison with NaN *)
(* is false, as in IEEE 754.                                                   *)

NaN == <<>>

Num(n) == <<n, 1>>

IsNaN(v) == Len(v) = 0

Abs(n) == IF n < 0 THEN -n ELSE n

RECURSIVE GCD(_, _)
GCD(a, b) == IF b = 0 THEN a ELSE GCD(b, a % b)

\* The value n/d: 0/0 is NaN, n/0 an infinity.
Norm(n, d) ==
    IF d = 0 THEN (IF n = 0 THEN NaN ELSE IF n > 0 THEN <<1, 0>> ELSE <<-1, 0>>)
    ELSE LET s == IF d < 0 THEN -1 ELSE 1
             g == GCD(Abs(n), Abs(d))
         IN  <<(s * n) \div g, (s * d) \div g>>

Neg(a) == IF IsNaN(a) THEN NaN ELSE <<-a[1], a[2]>>

Add(a, b) ==
    IF IsNaN(a) \/ IsNaN(b) THEN NaN
    ELSE IF a[2] = 0 /\ b[2] = 0 THEN (IF a = b THEN a ELSE NaN)
    ELSE Norm(a[1] * b[2] + b[1] * a[2], a[2] * b[2])

Sub(a, b) == Add(a, Neg(b))

Mul(a, b) ==
    IF IsNaN(a) \/ IsNaN(b) THEN NaN
    ELSE Norm(a[1] * b[1], a[2] * b[2])

Div(a, b) ==
    IF IsNaN(a) \/ IsNaN(b) THEN NaN
    ELSE Norm(a[1] * b[2], a[2] * b[1])

Lt(a, b) ==
    /\ ~IsNaN(a) /\ ~IsNaN(b)
    /\ IF a[2] = 0 /\ b[2] = 0 THEN a[1] < b[1] ELSE a[1] * b[2] < b[1] * a[2]

Gt(a, b) == Lt(b, a)

Ge(a, b) == ~IsNaN(a) /\ ~IsNaN(b) /\ ~Lt(a, b)

FloatEq(a, b) == ~IsNaN(a) /\ ~IsNaN(b) /\ a = b

----------------------------------------------------------------------------
(* Python values held in a property dictionary or passed to a setter, tagged *)
(* by kind so that values of different kinds compare unequal.                *)

None == <<"none">>

Scalar(v) == <<"num", v>>

Vector(vec) == <<"vec", vec>>

Coords(lon, lat) == <<"coords", lon, lat>>

\* isinstance(val, collections.Container) and not isinstance(val, str)
IsContainer(val) == val[1] = "vec"

Range(s) == {s[i] : i \in 1..Len(s)}

\* F(v), with v evaluated once.
Bind(v, F(_)) == CHOOSE r \in {F(x) : x \in {v}} : TRUE

----------------------------------------------------------------------------
(* Cast                                                                    *)

RECURSIVE InitItems(_, _, _, _)
\* The loop of Cast.__init__ over the keyword arguments, in order: a container
\* as long as p becomes a data vector and is appended to _fields, anything else
\* becomes a property.  st = [data, fields, props].
InitItems(st, kwargs, i, n) ==
    IF i > Len(kwargs) THEN st
    ELSE LET kw  == kwargs[i][1]
             val == kwargs[i][2]
         IN  IF IsContainer(val) /\ Len(val[2]) = n
             THEN InitItems([st EXCEPT !.data = (kw :> val[2]) @@ st.data,
                                       !.fields = Append(st.fields, kw)],
                            kwargs, i + 1, n)
             ELSE InitItems([st EXCEPT !.props = (kw :> val) @@ st.props],
                            kwargs, i + 1, n)

\* Cast.__init__(p, coords, properties, primarykey, **kwargs), where `properties`
\* is the content of the dictionary the cast will use (empty for None).  The
\* result is the new object and the new content of that dictionary.
CastInit(type, p, coords, properties, primarykey, kwargs, dictId) ==
    LET st0 == [data   |-> (primarykey :> p),
                fields |-> <<primarykey>>,
                props  |-> ("coordinates" :> coords) @@ properties]
        st  == InitItems(st0, kwargs, 1, Len(p))
    IN  [cast |-> [type       |-> type,
                   primarykey |-> primarykey,
                   data       |-> st.data,
                   fields     |-> st.fields,
                   props      |-> dictId,
                   len        |-> Len(p)],
         dict |-> st.props]

\* CTDCast.__init__: salinity and temperature are the first keyword arguments.
CTDCastInit(p, sal, temp, coords, properties, kwargs, dictId) ==
    CastInit("ctdcast", p, coords, properties, "pres",
             <<(<<"sal", sal>>), (<<"temp", temp>>)>> \o kwargs, dictId)

\* Cast.__setitem__ with a string key.  d is the cast's property dictionary.
SetItem(c, d, key, val) ==
    IF IsContainer(val) /\ Len(val[2]) = Len(c.data[c.primarykey])
    THEN [cast |-> [c EXCEPT !.data = (key :> val[2]) @@ c.data,
                             !.fields = IF key \in Range(c.fields)
                                        THEN c.fields
                                        ELSE Append(c.fields, key)],
          dict |-> d]
    ELSE [cast |-> c, dict |-> (key :> val) @@ d]

\* A faulty key search: tries key_2 once and does not loop.
UnusedKeyOnce(c, key, key_, i) ==
    IF key_ \in DOMAIN c.data THEN key \o "_" \o ToString(i) ELSE key_

RECURSIVE UnusedKey(_, _, _, _)
\* The while loop of _addkeydata: key, key_2, key_3, ... until not in data.
UnusedKey(c, key, key_, i) ==
    IF key_ \in DOMAIN c.data
    THEN UnusedKey(c, key, key \o "_" \o ToString(i), i + 1)
    ELSE key_

\* The key _addkeydata stores under.
AddKey(c, key, overwrite) ==
    IF overwrite THEN key ELSE UnusedKey(c, key, key, 2)

\* Cast._addkeydata(key, data, overwrite): the cast afterwards.
AddKeyData(c, key, data, overwrite) ==
    LET key_ == AddKey(c, key, overwrite)
    IN  [c EXCEPT !.fields = IF key_ \in Range(c.fields)
                             THEN c.fields
                             ELSE Append(c.fields, key_),
                  !.data = (key_ :> data) @@ c.data]

\* What np.empty may hold: any float, the missing value included.
Garbage == {NaN, Num(0), Num(1)}

\* np.empty(n, dtype=float64): n uninitialised cells.
EmptyArrays(n) == [1..n -> Garbage]

\* Cast.extend(n, padvalue) for n > 0, `empty` being what np.empty returned.
Extend(c, n, padvalue, empty) ==
    LET empty_array == [i \in 1..n |-> Mul(padvalue, empty[i])]
    IN  [c EXCEPT !.data = [k \in DOMAIN c.data |-> c.data[k] \o empty_array],
                  !.len = c.len + n]

\* ~np.isnan(a): a is a float vector <<"num", v>> or, inside the reduce, the
\* boolean vector <<"bool", b>> that the previous step returned.  np.isnan of a
\* boolean is False.
NotNan(a) ==
    IF a[1] = "bool" THEN [i \in 1..Len(a[2]) |-> TRUE]
    ELSE [i \in 1..Len(a[2]) |-> ~IsNaN(a[2][i])]

\* lambda a, b: (~np.isnan(a)) & (~np.isnan(b)), with numpy's broadcasting of
\* one-element vectors; operands that do not broadcast raise ValueError.
BothValid(a, b) ==
    LET x == NotNan(a)
        y == NotNan(b)
        n == IF Len(x) = 1 THEN Len(y) ELSE Len(x)
    IN  IF Len(x) # Len(y) /\ Len(x) # 1 /\ Len(y) # 1
        THEN <<"error", "ValueError">>
        ELSE <<"bool", [i \in 1..n |-> x[IF Len(x) = 1 THEN 1 ELSE i]
                                       /\ y[IF Len(y) = 1 THEN 1 ELSE i]]>>

RECURSIVE Reduce(_, _, _)
\* functools.reduce(lambda, vectors) from element i on, acc being the value so far.
Reduce(acc, vectors, i) ==
    IF i > Len(vectors) \/ acc[1] = "error" THEN acc
    ELSE Reduce(BothValid(acc, <<"num", vectors[i]>>), vectors, i + 1)

RECURSIVE CountTrue(_, _)
\* sum(b) of a boolean vector, from cell i on.
CountTrue(b, i) ==
    IF i > Len(b) THEN 0 ELSE (IF b[i] THEN 1 ELSE 0) + CountTrue(b, i + 1)

\* Cast.nvalid(fields): fields is None, <<"str", name>> or <<"tuple", names>>.
NValid(c, fields) ==
    LET names == IF fields = None THEN c.fields
                 ELSE IF fields[1] = "str" THEN <<fields[2]>>
                 ELSE fields[2]
    IN  IF \E i \in 1..Len(names) : names[i] \notin DOMAIN c.data
        THEN <<"error", "KeyError">>
        ELSE LET vectors == [i \in 1..Len(names) |-> c.data[names[i]]]
             IN  IF Len(vectors) = 1
                 THEN <<"int", CountTrue(NotNan(<<"num", vectors[1]>>), 1)>>
                 ELSE IF Len(vectors) = 0
                 THEN <<"error", "TypeError">>
                 ELSE LET r == Reduce(<<"num", vectors[1]>>, vectors, 2)
                      IN  IF r[1] = "error" THEN r
                          ELSE <<"int", CountTrue(r[2], 1)>>

RECURSIVE LinearSearch(_, _, _)
\* numpy's search for the interval of key in arr (the scan it uses for up to
\* four points, and what its bisection finds in an increasing arr): the last
\* position before the first one, from the second on, that key is not >=.
LinearSearch(key, arr, q) ==
    IF q <= Len(arr) /\ Ge(key, arr[q]) THEN LinearSearch(key, arr, q + 1)
    ELSE q - 1

\* np.interp(x, xp, fp, left=nan, right=nan) at one point x, xp not empty.
InterpAt(x, xp, fp) ==
    IF IsNaN(x) THEN NaN
    ELSE IF Gt(x, xp[Len(xp)]) THEN NaN
    ELSE IF Lt(x, xp[1]) THEN NaN
    ELSE LET j == LinearSearch(x, xp, 2)
         IN  IF j = Len(xp) THEN fp[j]
             ELSE IF FloatEq(xp[j], x) THEN fp[j]
             ELSE LET slope == Div(Sub(fp[j + 1], fp[j]), Sub(xp[j + 1], xp[j]))
                      r1    == Add(Mul(slope, Sub(x, xp[j])), fp[j])
                      r2    == Add(Mul(slope, Sub(x, xp[j + 1])), fp[j + 1])
                  IN  IF ~IsNaN(r1) THEN r1
                      ELSE IF IsNaN(r2) /\ FloatEq(fp[j], fp[j + 1]) THEN fp[j]
                      ELSE r2

Interp(levels, xp, fp) == [i \in 1..Len(levels) |-> InterpAt(levels[i], xp, fp)]

\* np.interp raises ValueError for no sample points or for len(fp) # len(xp).
RegridFails(c) ==
    \E key \in DOMAIN c.data \ {c.primarykey} :
        \/ Len(c.data[c.primarykey]) = 0
        \/ Len(c.data[key]) # Len(c.data[c.primarykey])

\* A faulty copy that keeps referring to the original's dictionary.
ShallowCopy(c, dictId) == c

\* copy.deepcopy(cast): the same content, owning the new dictionary dictId.
DeepCopy(c, dictId) == [c EXCEPT !.props = dictId]

\* Cast.regrid(levels): the returned cast, whose dictionary is dictId.
Regrid(c, levels, dictId) ==
    LET ret == DeepCopy(c, dictId)
    IN  [ret EXCEPT !.len = Len(levels),
                    !.data = [key \in DOMAIN c.data |->
                                 IF key # c.primarykey
                                 THEN Interp(levels, c.data[c.primarykey], c.data[key])
                                 ELSE levels]]

----------------------------------------------------------------------------
(* CTDCast                                                                 *)

\* The constants G and 1e4 of add_depth, as fractions.
G == <<49, 5>>

TenThousand == <<10000, 1>>

\* In-situ density of one sample (gsw.sa_from_sp, gsw.ct_from_t, gsw.rho):
\* missing when an input is missing, else a positive number that grows with
\* pressure (1000 at pressure 1, 250 more per unit of pressure).
Rho(sal, temp, pres) ==
    Add(Mul(Num(250), Add(Num(3), pres)), Mul(Num(0), Add(sal, temp)))

\* CTDCast.add_density(): [err, cast, key].  d is the cast's dictionary.
AddDensity(c, d) ==
    IF c.type # "ctdcast" THEN [err |-> "AttributeError", cast |-> c, key |-> ""]
    ELSE IF {"sal", "pres"} \ (DOMAIN c.data \cup DOMAIN d) # {}
    THEN [err |-> "KeyError", cast |-> c, key |-> ""]
    ELSE IF d["coordinates"] = None
    THEN [err |-> "TypeError", cast |-> c, key |-> ""]
    ELSE IF "temp" \notin DOMAIN c.data \cup DOMAIN d
    THEN [err |-> "KeyError", cast |-> c, key |-> ""]
    ELSE IF \/ {"sal", "pres", "temp"} \ DOMAIN c.data # {}
            \/ Len(c.data["sal"]) # Len(c.data["pres"])
            \/ Len(c.data["temp"]) # Len(c.data["pres"])
    THEN [err |-> "ValueError", cast |-> c, key |-> ""]
    ELSE LET rho == [i \in 1..Len(c.data["sal"]) |->
                        Rho(c.data["sal"][i], c.data["temp"][i], c.data["pres"][i])]
         IN  [err  |-> "",
              cast |-> AddKeyData(c, "rho", rho, FALSE),
              key  |-> AddKey(c, "rho", FALSE)]

RECURSIVE LeadingNaNs(_, _)
\* The loop of add_depth counting the leading missing values of rho, from
\* count nnans on; Len(rho) when it runs off the end (rho[nnans] raises).
LeadingNaNs(rho, nnans) ==
    IF nnans >= Len(rho) THEN Len(rho)
    ELSE IF IsNaN(rho[nnans + 1]) THEN LeadingNaNs(rho, nnans + 1)
    ELSE nnans

RECURSIVE CumSum(_, _)
\* np.cumsum(v)[i], i >= 1.
CumSum(v, i) == IF i = 1 THEN v[1] ELSE Add(CumSum(v, i - 1), v[i])

\* np.hstack([pres[0], np.diff(pres)])
PresSteps(pres) ==
    [i \in 1..Len(pres) |-> IF i = 1 THEN pres[1] ELSE Sub(pres[i], pres[i - 1])]

\* add_depth from the point where the density field is known: dens is what
\* add_density returned, or the cast as it is and the name given as rhokey.
\* The density vector is filled in place: rho[:nnans] = rho[nnans+1], in
\* Python's 0-based indices, which raises IndexError when nnans+1 is no index.
AddDepthWith(dens, d) ==
    LET c1 == dens.cast
    IN  IF dens.err # "" THEN dens
        ELSE IF dens.key \notin DOMAIN c1.data \cup DOMAIN d
        THEN [err |-> "KeyError", cast |-> c1, key |-> ""]
        ELSE IF dens.key \notin DOMAIN c1.data
        THEN [err |-> "TypeError", cast |-> c1, key |-> ""]
        ELSE LET rho   == c1.data[dens.key]
                 nnans == LeadingNaNs(rho, 0)
             IN  IF nnans >= Len(rho) \/ nnans + 2 > Len(rho)
                 THEN [err |-> "IndexError", cast |-> c1, key |-> ""]
                 ELSE LET filled == [i \in 1..Len(rho) |->
                                        IF i <= nnans THEN rho[nnans + 2] ELSE rho[i]]
                          c2     == [c1 EXCEPT !.data[dens.key] = filled]
                      IN  IF "pres" \notin DOMAIN c2.data
                             \/ Len(c2.data["pres"]) # Len(filled)
                          THEN [err |-> "ValueError", cast |-> c2, key |-> ""]
                          ELSE LET dp == PresSteps(c2.data["pres"])
                                   dz == [i \in 1..Len(dp) |->
                                            Mul(Div(dp[i], Mul(filled[i], G)), TenThousand)]
                                   depth == [i \in 1..Len(dz) |-> CumSum(dz, i)]
                               IN  [err  |-> "",
                                    cast |-> AddKeyData(c2, "depth", depth, FALSE),
                                    key  |-> AddKey(c2, "depth", FALSE)]

\* CTDCast.add_depth(rhokey) with rhokey a name or None: [err, cast, key].
AddDepth(c, d, rhokey) ==
    Bind(IF rhokey = None THEN AddDensity(c, d)
         ELSE [err |-> "", cast |-> c, key |-> rhokey[2]],
         LAMBDA dens : AddDepthWith(dens, d))

----------------------------------------------------------------------------
(* CastCollection.  h is a heap, ds the dictionaries, ids the collection's *)
(* casts.                                                                  *)

RECURSIVE MaxOf(_, _)
\* max(f[i] for i in 1..n), n >= 1.
MaxOf(f, n) ==
    IF n = 1 THEN f[1]
    ELSE LET m == MaxOf(f, n - 1) IN IF f[n] > m THEN f[n] ELSE m

\* max(len(c) for c in self)
MaxCastLen(h, ids) == MaxOf([i \in 1..Len(ids) |-> h[ids[i]].len], Len(ids))

\* n missing values.
NaNs(n) == [i \in 1..n |-> NaN]

\* CastCollection.__getitem__(key) with a string key: the matrix as the
\* sequence of its columns, the list of property values, or the error raised.
\* np.vstack raises ValueError for no rows and for rows of different lengths.
CollGetItem(h, ds, ids, key) ==
    IF \A i \in 1..Len(ids) : key \in DOMAIN h[ids[i]].data
    THEN IF Len(ids) = 0 THEN <<"error", "ValueError">>
         ELSE IF \E i \in 1..Len(ids) :
                    Len(h[ids[i]].data[key]) # Len(h[ids[1]].data[key])
         THEN <<"error", "ValueError">>
         ELSE <<"matrix", [i \in 1..Len(ids) |-> h[ids[i]].data[key]]>>
    ELSE IF \A i \in 1..Len(ids) : key \in DOMAIN ds[h[ids[i]].props]
    THEN <<"list", [i \in 1..Len(ids) |-> ds[h[ids[i]].props][key]]>>
    ELSE <<"error", "KeyError">>

\* A faulty column: the rows below the cast left at zero instead of missing.
AsArrayColumnZeros(c, d, key, nrows) ==
    IF key \in DOMAIN c.data /\ Len(c.data[key]) = c.len
    THEN <<"col", c.data[key] \o [i \in 1..(nrows - c.len) |-> Num(0)]>>
    ELSE <<"error", "ValueError">>

\* One column of asarray: cast[key] written into the first len(cast) rows of a
\* column of nrows missing values.
AsArrayColumn(c, d, key, nrows) ==
    IF key \in DOMAIN c.data
    THEN IF Len(c.data[key]) = c.len /\ c.len <= nrows
         THEN <<"col", c.data[key] \o NaNs(nrows - c.len)>>
         ELSE IF Len(c.data[key]) = 1
         THEN <<"col", [i \in 1..nrows |-> IF i <= c.len THEN c.data[key][1] ELSE NaN]>>
         ELSE <<"error", "ValueError">>
    ELSE IF key \in DOMAIN d
    THEN IF d[key][1] = "num"
         THEN <<"col", [i \in 1..nrows |-> IF i <= c.len THEN d[key][2] ELSE NaN]>>
         ELSE <<"error", "ValueError">>
    ELSE <<"error", "KeyError">>

\* CastCollection.asarray(key): the matrix as the sequence of its columns.
AsArray(h, ds, ids, key) ==
    IF Len(ids) = 0 THEN <<"error", "ValueError">>
    ELSE LET nrows == MaxOf([i \in 1..Len(ids) |-> h[ids[i]].len], Len(ids))
             cols  == [i \in 1..Len(ids) |->
                          AsArrayColumn(h[ids[i]], ds[h[ids[i]].props], key, nrows)]
         IN  IF \E i \in 1..Len(ids) : cols[i][1] = "error"
             THEN cols[CHOOSE i \in 1..Len(ids) :
                          /\ cols[i][1] = "error"
                          /\ \A j \in 1..(i - 1) : cols[j][1] # "error"]
             ELSE <<"matrix", [i \in 1..Len(ids) |-> cols[i][2]]>>

\* One cast of defray: a deep copy, extended to n rows when shorter.
DefrayCast(c, n, padvalue, empty, dictId) ==
    LET cast == DeepCopy(c, dictId)
    IN  IF cast.len < n
        THEN Extend(cast, n - cast.len, padvalue, SubSeq(empty, 1, n - cast.len))
        ELSE cast

RECURSIVE DensityAll(_, _, _, _, _)
\* The first loop of thermal_wind: add_density on every cast, from the i-th
\* on, stopping at the first that raises.  [heap, err, keys].
DensityAll(h, ds, ids, i, keys) ==
    IF i > Len(ids) THEN [heap |-> h, err |-> "", keys |-> keys]
    ELSE Bind(AddDensity(h[ids[i]], ds[h[ids[i]].props]),
              LAMBDA r :
                 IF r.err # "" THEN [heap |-> h, err |-> r.err, keys |-> keys]
                 ELSE DensityAll([h EXCEPT ![ids[i]] = r.cast], ds, ids, i + 1,
                                 Append(keys, r.key)))

RECURSIVE DepthAll(_, _, _, _)
\* The second loop of thermal_wind: add_depth() on every cast that has no data
\* vector "depth", from the i-th on, stopping at the first that raises.
DepthAll(h, ds, ids, i) ==
    IF i > Len(ids) THEN [heap |-> h, err |-> ""]
    ELSE IF "depth" \in DOMAIN h[ids[i]].data THEN DepthAll(h, ds, ids, i + 1)
    ELSE Bind(AddDepth(h[ids[i]], ds[h[ids[i]].props], None),
              LAMBDA r :
                 IF r.err # ""
                 THEN [heap |-> [h EXCEPT ![ids[i]] = r.cast], err |-> r.err]
                 ELSE DepthAll([h EXCEPT ![ids[i]] = r.cast], ds, ids, i + 1))

\* util.diff2_dinterp(rho, dist): the density difference across neighbouring
\* stations, per row, the same shape as rho (one column when there is one).
Diff2(rho) ==
    LET n == Len(rho)
    IN  [i \in 1..n |->
            [r \in 1..Len(rho[i]) |->
                Sub(rho[IF i < n THEN i + 1 ELSE i][r], rho[IF i > 1 THEN i - 1 ELSE i][r])]]

\* Shear from density and its gradient, (G / rho * drho) / (2 OMEGA sin(lat)),
\* up to the positive factor G / (rho 2 OMEGA sin(lat)): missing where the
\* density or its gradient is missing.
Shear(rho, drho) ==
    [i \in 1..Len(rho) |->
        [r \in 1..Len(rho[i]) |-> IF IsNaN(rho[i][r]) THEN NaN ELSE drho[i][r]]]

\* util.uintegrate(dudz, depth): the shear summed down each column, missing
\* from the first row on whose shear or depth is missing.
UIntegrate(dudz, depth) ==
    [i \in 1..Len(dudz) |->
        [r \in 1..Len(dudz[i]) |->
            CumSum([q \in 1..Len(dudz[i]) |->
                       IF IsNaN(depth[i][q]) THEN NaN ELSE dudz[i][q]], r)]]

\* A faulty last loop: the fields written under the given names whatever
\* `overwrite` says.
AddShearAllOverwrite(h, ids, ic, dudz, u, overwrite) ==
    [id \in 1..Len(h) |->
        IF \E j \in ic..Len(ids) : ids[j] = id
        THEN LET j == CHOOSE j \in ic..Len(ids) : ids[j] = id
             IN  AddKeyData(AddKeyData(h[id], "dudz", dudz[j], TRUE), "u", u[j], TRUE)
        ELSE h[id]]

RECURSIVE AddShearAll(_, _, _, _, _, _)
\* The last loop of thermal_wind: column ic of dudz and of u added to cast ic.
AddShearAll(h, ids, ic, dudz, u, overwrite) ==
    IF ic > Len(ids) THEN h
    ELSE LET c1 == AddKeyData(h[ids[ic]], "dudz", dudz[ic], overwrite)
             c2 == AddKeyData(c1, "u", u[ic], overwrite)
         IN  AddShearAll([h EXCEPT ![ids[ic]] = c2], ids, ic + 1, dudz, u, overwrite)

\* thermal_wind from the stacking of the density on: h is the heap after the
\* first loop and rhokey the name of the density field.
ThermalWindFrom(h, ds, ids, rhokey, overwrite) ==
    Bind(AsArray(h, ds, ids, rhokey),
         LAMBDA rho :
            IF rho[1] = "error" THEN [heap |-> h, err |-> rho[2]]
            ELSE Bind(DepthAll(h, ds, ids, 1),
                      LAMBDA dep :
                         IF dep.err # "" THEN dep
                         ELSE IF \E i \in 1..Len(ids) :
                                    ds[dep.heap[ids[i]].props]["coordinates"] = None
                         THEN [heap |-> dep.heap, err |-> "TypeError"]
                         ELSE Bind(Shear(rho[2], Diff2(rho[2])),
                                   LAMBDA dudz :
                                      Bind(AsArray(dep.heap, ds, ids, "depth"),
                                           LAMBDA depth :
                                              IF depth[1] = "error"
                                              THEN [heap |-> dep.heap, err |-> depth[2]]
                                              ELSE Bind(UIntegrate(dudz, depth[2]),
                                                        LAMBDA u :
                                                           [heap |-> AddShearAll(dep.heap, ids, 1,
                                                                        dudz, u, overwrite),
                                                            err  |-> ""])))))

\* A faulty thermal_wind: the names add_density returned are not compared.
ThermalWindUnchecked(h, ds, ids, rhokey, overwrite) ==
    Bind(IF rhokey = None THEN DensityAll(h, ds, ids, 1, <<>>)
         ELSE [heap |-> h, err |-> "", keys |-> <<rhokey[2]>>],
         LAMBDA dens :
            IF dens.err # "" THEN [heap |-> dens.heap, err |-> dens.err]
            ELSE IF Len(dens.keys) = 0 THEN [heap |-> dens.heap, err |-> "IndexError"]
            ELSE ThermalWindFrom(dens.heap, ds, ids, dens.keys[1], overwrite))

\* CastCollection.thermal_wind(rhokey=..., overwrite=...): [heap, err].
ThermalWind(h, ds, ids, rhokey, overwrite) ==
    Bind(IF rhokey = None THEN DensityAll(h, ds, ids, 1, <<>>)
         ELSE [heap |-> h, err |-> "", keys |-> <<rhokey[2]>>],
         LAMBDA dens :
            IF dens.err # "" THEN [heap |-> dens.heap, err |-> dens.err]
            ELSE IF Len(dens.keys) = 0 THEN [heap |-> dens.heap, err |-> "IndexError"]
            ELSE IF \E i \in 2..Len(dens.keys) : dens.keys[i] # dens.keys[1]
            THEN [heap |-> dens.heap, err |-> "NameError"]
            ELSE ThermalWindFrom(dens.heap, ds, ids, dens.keys[1], overwrite))

\* len(a[~np.isnan(a)])
CountValid(a) == Cardinality({i \in 1..Len(a) : ~IsNaN(a[i])})

\* avgcolumns(a, b) of thermal_wind_inner: the one with more valid values, b
\* when they have as many.
AvgColumns(a, b) == IF CountValid(a) > CountValid(b) THEN a ELSE b

Half == <<1, 2>>

\* A faulty midpoint: the position of the first station.
FirstCoords(c1, c2) == c1

\* cmid = (0.5*(c1[0]+c2[0]), 0.5*(c1[1]+c2[1]))
MidCoords(c1, c2) ==
    Coords(Mul(Half, Add(c1[2], c2[2])), Mul(Half, Add(c1[3], c2[3])))

\* One pass of the loop of thermal_wind_inner that builds the cast between
\* stations i and i+1: [err, cast, dict].
MidCast(h, ds, ids, i, bottomkey, dictId) ==
    LET a  == h[ids[i]]
        b  == h[ids[i + 1]]
        da == ds[a.props]
        db == ds[b.props]
        failed(e) == [err |-> e, cast |-> a, dict |-> da]
    IN  IF da["coordinates"] = None \/ db["coordinates"] = None THEN failed("TypeError")
        ELSE IF \E k \in {"pres", "temp", "sal"} :
                   \/ k \notin DOMAIN a.data \cup DOMAIN da
                   \/ k \notin DOMAIN b.data \cup DOMAIN db
        THEN failed("KeyError")
        ELSE IF {"pres", "temp", "sal"} \ (DOMAIN a.data \cap DOMAIN b.data) # {}
        THEN failed("TypeError")
        ELSE Bind(CTDCastInit(AvgColumns(a.data["pres"], b.data["pres"]),
                              Vector(AvgColumns(a.data["sal"], b.data["sal"])),
                              Vector(AvgColumns(a.data["temp"], b.data["temp"])),
                              MidCoords(da["coordinates"], db["coordinates"]),
                              <<>>, <<>>, dictId),
                  LAMBDA new :
                     Bind(AddDepth(new.cast, new.dict, None),
                          LAMBDA dep :
                             IF dep.err # "" THEN failed(dep.err)
                             ELSE IF bottomkey \notin DOMAIN da \cap DOMAIN db
                             THEN failed("KeyError")
                             ELSE IF da[bottomkey][1] # "num" \/ db[bottomkey][1] # "num"
                             THEN failed("TypeError")
                             ELSE [err  |-> "",
                                   cast |-> dep.cast,
                                   dict |-> (bottomkey :>
                                               Scalar(Mul(Half, Add(da[bottomkey][2],
                                                                    db[bottomkey][2]))))
                                            @@ new.dict]))

RECURSIVE MidCasts(_, _, _, _, _, _)
\* The loop over range(len(self.casts)-1), from pass i on, stopping at the
\* first pass that raises: [err, casts, dicts].  The new casts use the
\* dictionaries after the nd existing ones.
MidCasts(h, ds, ids, i, nd, acc) ==
    IF i > Len(ids) - 1 THEN acc
    ELSE Bind(MidCast(h, ds, ids, i, "depth", nd + i),
              LAMBDA r :
                 IF r.err # "" THEN [acc EXCEPT !.err = r.err]
                 ELSE MidCasts(h, ds, ids, i + 1, nd,
                               [acc EXCEPT !.casts = Append(@, r.cast),
                                           !.dicts = Append(@, r.dict)]))

\* util.diff2_inner(rho, dist): the density difference between neighbouring
\* stations, per row: one column fewer than rho.
Diff2Inner(rho) ==
    [i \in 1..(Len(rho) - 1) |-> [r \in 1..Len(rho[i]) |-> Sub(rho[i + 1][r], rho[i][r])]]

\* rhoavg = 0.5 * (rho[:,:-1] + rho[:,1:])
RhoAvg(rho) ==
    [i \in 1..(Len(rho) - 1) |->
        [r \in 1..Len(rho[i]) |-> Mul(Half, Add(rho[i][r], rho[i + 1][r]))]]

RECURSIVE AddShearMid(_, _, _, _, _)
\* The last loop of thermal_wind_inner: column ic of dudz and of u added to
\* the ic-th new cast.
AddShearMid(casts, ic, dudz, u, overwrite) ==
    IF ic > Len(casts) THEN casts
    ELSE LET c1 == AddKeyData(casts[ic], "dudz", dudz[ic], overwrite)
             c2 == AddKeyData(c1, "u", u[ic], overwrite)
         IN  AddShearMid([casts EXCEPT ![ic] = c2], ic + 1, dudz, u, overwrite)

\* thermal_wind_inner from the stacking of the density on: h is the heap after
\* the add_density loop.  [heap, err, casts, dicts]: the casts of the input
\* as the call leaves them and the casts of the collection returned.
ThermalWindInnerFrom(h, ds, ids, rhokey, overwrite) ==
    LET failed(e) == [heap |-> h, err |-> e, casts |-> <<>>, dicts |-> <<>>]
    IN  Bind(AsArray(h, ds, ids, rhokey),
             LAMBDA rho :
                IF rho[1] = "error" THEN failed(rho[2])
                ELSE Bind(MidCasts(h, ds, ids, 1, Len(ds),
                                   [err |-> "", casts |-> <<>>, dicts |-> <<>>]),
                          LAMBDA mid :
                             IF mid.err # "" THEN failed(mid.err)
                             ELSE IF Len(mid.casts) = 0 THEN failed("ValueError")
                             ELSE Bind(AsArray(mid.casts, mid.dicts,
                                               [i \in 1..Len(mid.casts) |-> i], "depth"),
                                       LAMBDA depth :
                                          IF depth[1] = "error" THEN failed(depth[2])
                                          ELSE IF Len(depth[2][1]) # Len(rho[2][1])
                                          THEN failed("ValueError")
                                          ELSE Bind(Shear(RhoAvg(rho[2]), Diff2Inner(rho[2])),
                                                    LAMBDA dudz :
                                                       Bind(UIntegrate(dudz, depth[2]),
                                                            LAMBDA u :
                                                               [heap  |-> h,
                                                                err   |-> "",
                                                                casts |-> AddShearMid(mid.casts,
                                                                            1, dudz, u, overwrite),
                                                                dicts |-> mid.dicts])))))

\* CastCollection.thermal_wind_inner(rhokey=..., overwrite=...)
ThermalWindInner(h, ds, ids, rhokey, overwrite) ==
    Bind(IF rhokey = None THEN DensityAll(h, ds, ids, 1, <<>>)
         ELSE [heap |-> h, err |-> "", keys |-> <<rhokey[2]>>],
         LAMBDA dens :
            LET failed(e) == [heap |-> dens.heap, err |-> e, casts |-> <<>>, dicts |-> <<>>]
            IN  IF dens.err # "" THEN failed(dens.err)
                ELSE IF Len(dens.keys) = 0 THEN failed("IndexError")
                ELSE IF \E i \in 2..Len(dens.keys) : dens.keys[i] # dens.keys[1]
                THEN failed("NameError")
                ELSE ThermalWindInnerFrom(dens.heap, ds, ids, dens.keys[1], overwrite))

\* a == b of two property values (None for None): floats by value, a missing
\* value equal to nothing.
PyEq(a, b) ==
    IF a[1] = "num" /\ b[1] = "num" THEN FloatEq(a[2], b[2]) ELSE a = b

\* d.get(key, None)
DictGet(d, key) == IF key \in DOMAIN d THEN d[key] ELSE None

RECURSIVE CastWhere(_, _, _, _, _, _)
\* CastCollection.castwhere(key, value), from the i-th cast on: the first cast
\* that matches, None when the loop ends.
CastWhere(h, ds, ids, key, value, i) ==
    IF i > Len(ids) THEN None
    ELSE IF PyEq(DictGet(ds[h[ids[i]].props], key), value) THEN <<"cast", ids[i]>>
    ELSE CastWhere(h, ds, ids, key, value, i + 1)

\* values as castswhere uses it: a tuple as it is, anything else in a tuple of
\* its own.
AsTuple(values) == IF values[1] = "tuple" THEN values[2] ELSE <<values>>

\* x in values
PyIn(x, values) == \E j \in 1..Len(values) : PyEq(x, values[j])

RECURSIVE CastsWhere(_, _, _, _, _, _, _)
\* CastCollection.castswhere(key, values), from the i-th cast on: the casts of
\* the collection returned.
CastsWhere(h, ds, ids, key, values, i, casts) ==
    IF i > Len(ids) THEN casts
    ELSE CastsWhere(h, ds, ids, key, values, i + 1,
                    IF PyIn(DictGet(ds[h[ids[i]].props], key), AsTuple(values))
                    THEN Append(casts, ids[i]) ELSE casts)

\* hasattr(cast, "coords"): coords is a property of the class Cast, and its
\* getter returns properties["coordinates"], which __init__ always sets.
HasAttrCoords(c) == TRUE

\* bathymetry.atxy(lon, lat): the depth of the sea floor at a position.
Atxy(lon, lat) == Add(Num(100), lat)

RECURSIVE AddBathymetry(_, _, _, _)
\* The loop of add_bathymetry from the i-th cast on: [dicts, err].  A cast
\* without coordinates has coords None, and atxy(*None) raises TypeError.
AddBathymetry(h, ds, ids, i) ==
    IF i > Len(ids) THEN [dicts |-> ds, err |-> ""]
    ELSE LET c == h[ids[i]]
             d == ds[c.props]
         IN  IF HasAttrCoords(c)
             THEN IF d["coordinates"] = None
                  THEN [dicts |-> ds, err |-> "TypeError"]
                  ELSE AddBathymetry(h,
                          [ds EXCEPT ![c.props] =
                              ("depth" :> Scalar(Atxy(d["coordinates"][2], d["coordinates"][3])))
                                 @@ d],
                          ids, i + 1)
             ELSE AddBathymetry(h, [ds EXCEPT ![c.props] = ("tdepth" :> Scalar(NaN)) @@ d],
                                ids, i + 1)

----------------------------------------------------------------------------
(* Inputs                                                                  *)

\* A vector base+1, base+2, ..., base+n.
Ramp(n, base) == [i \in 1..n |-> Num(base + i)]

\* The same with its first cell missing.
Holed(n, base) == [i \in 1..n |-> IF i = 1 THEN NaN ELSE Num(base + i)]

\* Lengths of the primary vectors: the shortest and the longest.
Lens == {1, MaxLen}

\* Keyword arguments given to Cast(p, ...) for a primary vector of length n:
\* none, salinity and temperature, a vector named like the primary key, a scalar.
CastKwargs(n) ==
    { <<>>,
      <<(<<"sal", Vector(Holed(n, 30))>>), (<<"temp", Vector(Ramp(n, 10))>>)>>,
      <<(<<"pres", Vector(Ramp(n, 20))>>)>>,
      <<(<<"station", Scalar(Num(3))>>)>> }

\* Values given to cast[key] = val on a cast whose primary vector has length n.
SetValues(n) == {Scalar(Num(7)), Vector(Ramp(n, 40)), Vector(Ramp(n + 1, 40))}

SetKeys == {"temp", "station"}

\* Vectors given to _addkeydata on a cast of length n.
AddVectors(n) == {Ramp(n, 50), Ramp(n + 1, 50)}

\* Fill values given to extend.
PadValues == {NaN, Num(0)}

\* Grids given to regrid.
Levels == {<<Num(1)>>, <<Num(1), <<3, 2>>, Num(3)>>}

\* The first k names of a field list.
Prefix(fields, k) == SubSeq(fields, 1, k)

\* Selections given to nvalid: the default, one name, the first two names, the
\* first three names.
FieldArgs(c) ==
    {None}
    \cup {<<"str", k>> : k \in DOMAIN c.data}
    \cup {<<"tuple", Prefix(c.fields, k)>> : k \in {j \in 2..3 : j <= Len(c.fields)}}

----------------------------------------------------------------------------
(* The calls                                                               *)

\* The record of a call: what was called on which cast with which arguments,
\* what it returned and the heap before it.  `prev` is the result of the call
\* before it when that was the same _addkeydata call (same cast, key and
\* overwrite), else None.
Call(op, cast, key, arg, ret) ==
    [op |-> op, cast |-> cast, key |-> key, arg |-> arg, ret |-> ret,
     heap0 |-> heap, dicts0 |-> dicts,
     prev |-> IF /\ op = "addkeydata" /\ last.op = "addkeydata"
                 /\ last.cast = cast /\ last.key = key /\ last.arg[2] = arg[2]
              THEN last.ret ELSE None]

NoCall ==
    [op |-> "init", cast |-> 0, key |-> "", arg |-> None, ret |-> None,
     heap0 |-> <<>>, dicts0 |-> <<>>, prev |-> None]

Init ==
    /\ heap = <<>>
    /\ dicts = <<>>
    /\ coll = <<>>
    /\ origin = <<>>
    /\ nops = 0
    /\ last = NoCall

\* The dictionary a constructor called with properties=parg uses: a new one for
\* None (parg = 0), else the caller's dictionary parg itself.
DictFor(parg) == IF parg = 0 THEN Len(dicts) + 1 ELSE parg

DictContent(parg) == IF parg = 0 THEN <<>> ELSE dicts[parg]

\* The coordinates given to the k-th cast constructed: each cast its own.
CoordsOf(k) == Coords(Num(2 * k), Num(10 * k))

\* Cast(p, coords=..., properties=..., **kwargs)
NewCast ==
    /\ nops < MaxOps /\ Len(heap) < MaxCasts
    /\ \E n \in Lens, parg \in 0..Len(dicts) :
       \E kwargs \in CastKwargs(n) :
          LET id == Len(heap) + 1
              r  == CastInit("cast", Ramp(n, 0), CoordsOf(id), DictContent(parg),
                             "pres", kwargs, DictFor(parg))
          IN  /\ heap' = Append(heap, r.cast)
              /\ origin' = Append(origin, 0)
              /\ dicts' = IF parg = 0 THEN Append(dicts, r.dict)
                          ELSE [dicts EXCEPT ![parg] = r.dict]
              /\ last' = Call("Cast", id, "", <<parg, CoordsOf(id)>>, <<"cast", id>>)
    /\ nops' = nops + 1
    /\ UNCHANGED coll

\* cast[key] = val, in a run of at most maxops state-changing calls
SetItemOp(maxops) ==
    /\ nops < maxops
    /\ \E id \in 1..Len(heap), key \in SetKeys :
       \E val \in SetValues(heap[id].len) :
          LET c == heap[id]
              r == SetItem(c, dicts[c.props], key, val)
          IN  /\ heap' = [heap EXCEPT ![id] = r.cast]
              /\ dicts' = [dicts EXCEPT ![c.props] = r.dict]
              /\ last' = Call("setitem", id, key, val, None)
    /\ nops' = nops + 1
    /\ UNCHANGED <<coll, origin>>

SetItemCall == SetItemOp(MaxOps)

\* cast._addkeydata(key, data, overwrite)
AddKeyDataCall ==
    /\ nops < MaxOps
    /\ \E id \in 1..Len(heap), overwrite \in BOOLEAN :
       \E data \in AddVectors(heap[id].len) :
          LET c == heap[id]
          IN  /\ heap' = [heap EXCEPT ![id] = AddKeyData(c, "temp", data, overwrite)]
              /\ last' = Call("addkeydata", id, "temp", <<data, overwrite>>,
                              <<"key", AddKey(c, "temp", overwrite)>>)
    /\ nops' = nops + 1
    /\ UNCHANGED <<dicts, coll, origin>>

\* cast.extend(n, padvalue): raises ValueError for n <= 0.
ExtendOp(maxops) ==
    /\ nops < maxops
    /\ \E id \in 1..Len(heap), n \in -1..1 :
          IF n = 0 \/ n < 0
          THEN /\ last' = Call("extend", id, "", <<n, NaN>>, <<"error", "ValueError">>)
               /\ UNCHANGED <<heap, nops>>
          ELSE \E padvalue \in PadValues, empty \in EmptyArrays(n) :
                  /\ heap' = [heap EXCEPT ![id] = Extend(heap[id], n, padvalue, empty)]
                  /\ last' = Call("extend", id, "", <<n, padvalue>>, None)
                  /\ nops' = nops + 1
    /\ UNCHANGED <<dicts, coll, origin>>

ExtendCall == ExtendOp(MaxOps)

\* cast.regrid(levels)
RegridCall ==
    /\ nops < MaxOps /\ Len(heap) < MaxHeap
    /\ \E id \in 1..Len(heap), levels \in Levels :
          IF RegridFails(heap[id])
          THEN /\ last' = Call("regrid", id, "", levels, <<"error", "ValueError">>)
               /\ UNCHANGED <<heap, dicts, origin, nops>>
          ELSE LET new == Len(heap) + 1
                   ret == Regrid(heap[id], levels, Len(dicts) + 1)
               IN  /\ heap' = Append(heap, ret)
                   /\ dicts' = Append(dicts, dicts[heap[id].props])
                   /\ origin' = Append(origin, id)
                   /\ last' = Call("regrid", id, "", levels, <<"cast", new>>)
                   /\ nops' = nops + 1
    /\ UNCHANGED coll

\* cast.nvalid(fields)
NValidCall ==
    /\ \E id \in 1..Len(heap) :
       \E fields \in FieldArgs(heap[id]) :
          last' = Call("nvalid", id, "", fields, NValid(heap[id], fields))
    /\ UNCHANGED <<heap, dicts, coll, origin, nops>>

\* Casts under construction, assignment, add_field, extend and regrid.
Next ==
    \/ NewCast
    \/ SetItemCall
    \/ AddKeyDataCall
    \/ ExtendCall
    \/ RegridCall

Spec == Init /\ [][Next]_vars

\* Casts under construction and extend, and the counts nvalid reports.
NextCount ==
    \/ NewCast
    \/ ExtendCall
    \/ NValidCall

SpecCount == Init /\ [][NextCount]_vars

----------------------------------------------------------------------------
(* A collection of CTD casts                                               *)

\* The CTD casts a collection is built from: a cast of MaxLen samples, a longer
\* one, a longer one that starts with a missing salinity and brings its own
\* density field "rho", and one without coordinates.
CollKinds == 1..4

\* A density vector whose first cell is missing.
OwnRho(n) == [i \in 1..n |-> IF i = 1 THEN NaN ELSE Num(250 * (3 + i))]

KindLen(kind) == IF kind \in {2, 3} THEN MaxLen + 1 ELSE MaxLen

KindCast(kind, id) ==
    LET n == KindLen(kind)
    IN  CTDCastInit(Ramp(n, 0),
                    Vector(IF kind = 3 THEN Holed(n, 30) ELSE Ramp(n, 30)),
                    Vector(Ramp(n, 10)),
                    IF kind = 4 THEN None ELSE CoordsOf(id),
                    <<>>,
                    IF kind = 3 THEN <<(<<"rho", Vector(OwnRho(n))>>)>> ELSE <<>>,
                    id)

\* CastCollection(cast1, ..., castk) of k freshly constructed CTD casts.
InitColl ==
    \E k \in 0..MaxColl : \E kinds \in [1..k -> CollKinds] :
        /\ heap = [i \in 1..k |-> KindCast(kinds[i], i).cast]
        /\ dicts = [i \in 1..k |-> KindCast(kinds[i], i).dict]
        /\ coll = [i \in 1..k |-> i]
        /\ origin = [i \in 1..k |-> 0]
        /\ nops = 0
        /\ last = NoCall

CollSetItemCall == SetItemOp(MaxCollOps)

CollExtendCall == ExtendOp(MaxCollOps)

\* Keys a collection is indexed with.
CollKeys == {"temp", "rho", "coordinates", "station"}

\* collection[key]
CollGetItemCall ==
    /\ \E key \in CollKeys :
          last' = Call("collgetitem", 0, key, None, CollGetItem(heap, dicts, coll, key))
    /\ UNCHANGED <<heap, dicts, coll, origin, nops>>

\* collection.defray(padvalue): max() raises ValueError on an empty collection.
DefrayCall ==
    /\ nops < MaxCollOps
    /\ \E padvalue \in {NaN, Num(0)} :
          IF Len(coll) = 0
          THEN /\ last' = Call("defray", 0, "", padvalue, <<"error", "ValueError">>)
               /\ UNCHANGED <<heap, dicts, origin, nops>>
          ELSE /\ Len(heap) + Len(coll) <= MaxHeap
               /\ LET n == MaxCastLen(heap, coll)
                      k == Len(coll)
                      d == n - heap[coll[CHOOSE i \in 1..k :
                                       \A j \in 1..k : heap[coll[i]].len <= heap[coll[j]].len]].len
                  IN  \E empty \in [1..k -> EmptyArrays(d)] :
                         /\ heap' = heap \o [i \in 1..k |->
                                        DefrayCast(heap[coll[i]], n, padvalue, empty[i],
                                                   Len(dicts) + i)]
                         /\ dicts' = dicts \o [i \in 1..k |-> dicts[heap[coll[i]].props]]
                         /\ origin' = origin \o [i \in 1..k |-> coll[i]]
                         /\ last' = Call("defray", 0, "", padvalue,
                                         <<"coll", [i \in 1..k |-> Len(heap) + i]>>)
                         /\ nops' = nops + 1
    /\ UNCHANGED coll

\* collection.thermal_wind(rhokey=..., overwrite=...)
ThermalWindCall ==
    /\ nops < MaxCollOps
    /\ \E rhokey \in {None, <<"str", "rho">>}, overwrite \in BOOLEAN :
          \E r \in {ThermalWind(heap, dicts, coll, rhokey, overwrite)} :
              /\ heap' = r.heap
              /\ last' = Call("thermal_wind", 0, "", <<rhokey, overwrite>>,
                              IF r.err = "" THEN None ELSE <<"error", r.err>>)
    /\ nops' = nops + 1
    /\ UNCHANGED <<dicts, coll, origin>>

\* A collection under indexing, defray and thermal_wind, and its casts under
\* assignment and extend.
NextColl ==
    \/ CollSetItemCall
    \/ CollExtendCall
    \/ CollGetItemCall
    \/ DefrayCall
    \/ ThermalWindCall

SpecColl == InitColl /\ [][NextColl]_vars

----------------------------------------------------------------------------
(* A collection stacked into a matrix                                      *)

\* Keys asarray is called with.
ArrKeys == {"temp", "rho", "dudz", "station"}

\* collection.asarray(key)
AsArrayCall ==
    /\ \E key \in ArrKeys :
          last' = Call("asarray", 0, key, None, AsArray(heap, dicts, coll, key))
    /\ UNCHANGED <<heap, dicts, coll, origin, nops>>

\* A collection under asarray, its casts under assignment, extend and
\* thermal_wind.
NextArr ==
    \/ CollSetItemCall
    \/ CollExtendCall
    \/ ThermalWindCall
    \/ AsArrayCall

SpecArr == InitColl /\ [][NextArr]_vars

----------------------------------------------------------------------------
(* A transect: bathymetry and thermal wind between stations                *)

\* CastCollection(cast1, ..., castk) of k freshly constructed CTD casts, k up
\* to MaxInner.
InitInner ==
    \E k \in 0..MaxInner : \E kinds \in [1..k -> CollKinds] :
        /\ heap = [i \in 1..k |-> KindCast(kinds[i], i).cast]
        /\ dicts = [i \in 1..k |-> KindCast(kinds[i], i).dict]
        /\ coll = [i \in 1..k |-> i]
        /\ origin = [i \in 1..k |-> 0]
        /\ nops = 0
        /\ last = NoCall

\* collection.add_bathymetry(bathymetry)
AddBathymetryCall ==
    /\ nops < MaxCollOps
    /\ \E r \in {AddBathymetry(heap, dicts, coll, 1)} :
          /\ dicts' = r.dicts
          /\ last' = Call("add_bathymetry", 0, "", None,
                          IF r.err = "" THEN None ELSE <<"error", r.err>>)
    /\ nops' = nops + 1
    /\ UNCHANGED <<heap, coll, origin>>

\* collection.thermal_wind_inner(rhokey=..., overwrite=...)
ThermalWindInnerCall ==
    /\ nops < MaxCollOps
    /\ \E rhokey \in {None, <<"str", "rho">>}, overwrite \in BOOLEAN :
          \E r \in {ThermalWindInner(heap, dicts, coll, rhokey, overwrite)} :
              /\ heap' = r.heap \o r.casts
              /\ dicts' = dicts \o r.dicts
              /\ origin' = origin \o [i \in 1..Len(r.casts) |-> 0]
              /\ last' = Call("thermal_wind_inner", 0, "", <<rhokey, overwrite>>,
                              IF r.err = ""
                              THEN <<"coll", [i \in 1..Len(r.casts) |-> Len(heap) + i]>>
                              ELSE <<"error", r.err>>)
    /\ nops' = nops + 1
    /\ UNCHANGED coll

\* A transect under add_bathymetry, thermal_wind_inner and thermal_wind.
NextInner ==
    \/ AddBathymetryCall
    \/ ThermalWindInnerCall
    \/ ThermalWindCall

SpecInner == InitInner /\ [][NextInner]_vars

----------------------------------------------------------------------------
(* A CTD cast under add_density and add_depth                              *)

\* A density vector of n values of which the first j are missing.
LeadRho(n, j) == [i \in 1..n |-> IF i <= j THEN NaN ELSE Num(250 * (3 + i))]

\* CTDCast(p, sal, temp, coords=..., rho=...) for p of 1 to MaxLen + 1 values,
\* a salinity with or without a missing first value, and a density field of
\* which the first j values are missing, for every j that leaves one valid.
InitDepth ==
    \E n \in 1..(MaxLen + 1) : \E j \in 0..(n - 1) : \E holed \in BOOLEAN :
        LET r == CTDCastInit(Ramp(n, 0),
                             Vector(IF holed THEN Holed(n, 30) ELSE Ramp(n, 30)),
                             Vector(Ramp(n, 10)), CoordsOf(1), <<>>,
                             <<(<<"rho", Vector(LeadRho(n, j))>>)>>, 1)
        IN  /\ heap = <<r.cast>>
            /\ dicts = <<r.dict>>
            /\ coll = <<>>
            /\ origin = <<0>>
            /\ nops = 0
            /\ last = NoCall

\* cast.add_density()
AddDensityCall ==
    /\ nops < MaxOps
    /\ \E id \in 1..Len(heap) :
       \E r \in {AddDensity(heap[id], dicts[heap[id].props])} :
          /\ heap' = [heap EXCEPT ![id] = r.cast]
          /\ last' = Call("add_density", id, "", None,
                          IF r.err = "" THEN <<"key", r.key>> ELSE <<"error", r.err>>)
    /\ nops' = nops + 1
    /\ UNCHANGED <<dicts, coll, origin>>

\* cast.add_depth(rhokey)
AddDepthCall ==
    /\ nops < MaxOps
    /\ \E id \in 1..Len(heap), rhokey \in {None, <<"str", "rho">>} :
       \E r \in {AddDepth(heap[id], dicts[heap[id].props], rhokey)} :
          /\ heap' = [heap EXCEPT ![id] = r.cast]
          /\ last' = Call("add_depth", id, "", rhokey,
                          IF r.err = "" THEN <<"key", r.key>> ELSE <<"error", r.err>>)
    /\ nops' = nops + 1
    /\ UNCHANGED <<dicts, coll, origin>>

NextDepth ==
    \/ AddDensityCall
    \/ AddDepthCall

SpecDepth == InitDepth /\ [][NextDepth]_vars

----------------------------------------------------------------------------
(* Casts looked up by a property                                           *)

WhereKeys == {"station", "coordinates"}

\* A value castwhere is asked for.
WhereValue == {None, Scalar(Num(7)), Scalar(Num(3))}

\* Values castswhere is asked for: one value, or a tuple of candidates.
WhereValues ==
    WhereValue \cup {<<"tuple", <<Scalar(Num(3)), Scalar(Num(7))>>>>,
                     <<"tuple", <<None, Scalar(Num(3))>>>>}

\* collection.castwhere(key, value)
CastWhereCall ==
    /\ \E key \in WhereKeys, value \in WhereValue :
          last' = Call("castwhere", 0, key, value,
                       CastWhere(heap, dicts, coll, key, value, 1))
    /\ UNCHANGED <<heap, dicts, coll, origin, nops>>

\* collection.castswhere(key, values)
CastsWhereCall ==
    /\ \E key \in WhereKeys, values \in WhereValues :
          last' = Call("castswhere", 0, key, values,
                       <<"coll", CastsWhere(heap, dicts, coll, key, values, 1, <<>>)>>)
    /\ UNCHANGED <<heap, dicts, coll, origin, nops>>

\* A collection whose casts are given properties and looked up by them.
NextWhere ==
    \/ CollSetItemCall
    \/ CastWhereCall
    \/ CastsWhereCall

SpecWhere == InitColl /\ [][NextWhere]_vars

----------------------------------------------------------------------------
(* Properties                                                              *)

\* The cast a call was made on, before and after the call.
Before == last.heap0[last.cast]

After == heap[last.cast]

\* The names key_2, key_3, ... that _addkeydata may fall back on.
Suffixed(key) == {key \o "_" \o ToString(i) : i \in 2..(MaxOps + 2)}

\* C1: every vector in the data of every cast is as long as the cast, whatever
\* was assigned to it or extended, and after defray and thermal_wind on a
\* collection, casts of different lengths among them.
C1_VectorsHaveCastLength ==
    \A id \in 1..Len(heap) :
        \A k \in DOMAIN heap[id].data : Len(heap[id].data[k]) = heap[id].len

\* C2: _addkeydata with overwrite=False leaves the vector of every name that was
\* a field before the call as it was, returns a name that was not a field
\* before the call, and two successive such calls with the same base name
\* return two distinct names, the second being the base name with a numeric
\* suffix.
C2_AddFieldKeepsExisting ==
    (last.op = "addkeydata" /\ ~last.arg[2]) =>
        /\ \A k \in DOMAIN Before.data : After.data[k] = Before.data[k]
        /\ last.ret[2] \notin DOMAIN Before.data
        /\ last.ret[2] \notin Range(Before.fields)
        /\ After.data[last.ret[2]] = last.arg[1]
        /\ last.prev # None =>
              /\ last.ret # last.prev
              /\ last.ret[2] \in Suffixed(last.key)

\* C2 witness: a second _addkeydata("temp", overwrite=False) in a row on a cast
\* that already had a field "temp" returned "temp_3".
C2_Witness ==
    /\ last.op = "addkeydata" /\ ~last.arg[2]
    /\ last.prev = <<"key", "temp_2">>
    /\ last.ret = <<"key", "temp_3">>
    /\ "temp" \in DOMAIN Before.data

\* C3: constructing a Cast, or assigning to a key of a Cast, leaves the
\* properties (the coordinates among them) of every other cast as they were.
C3_PropertiesOwned ==
    last.op \in {"Cast", "setitem"} =>
        \A id \in 1..Len(last.heap0) :
            id # last.cast =>
                dicts[heap[id].props] = last.dicts0[last.heap0[id].props]

\* The names nvalid was asked about.
Asked == IF last.arg = None THEN After.fields
         ELSE IF last.arg[1] = "str" THEN <<last.arg[2]>>
         ELSE last.arg[2]

\* C4: nvalid returns the number of observations at which all the named
\* fields (one, two, three or more, or by default all) are not missing.
C4_NValidCountsComplete ==
    (last.op = "nvalid" /\ last.ret[1] = "int") =>
        last.ret[2] = Cardinality({i \in 1..After.len :
                          \A j \in 1..Len(Asked) : ~IsNaN(After.data[Asked[j]][i])})

\* C5: no name is at once a key of a cast's data and a key of its properties.
C5_FieldOrProperty ==
    \A id \in 1..Len(heap) :
        DOMAIN heap[id].data \cap DOMAIN dicts[heap[id].props] = {}

\* C6: the field list has no duplicates, names exactly the keys of data, and
\* starts with the primary key.
C6_FieldsInSync ==
    \A id \in 1..Len(heap) :
        LET c == heap[id]
        IN  /\ \A i, j \in 1..Len(c.fields) : c.fields[i] = c.fields[j] => i = j
            /\ Range(c.fields) = DOMAIN c.data
            /\ c.fields[1] = c.primarykey

\* C7: extend(n, fill) with n > 0 makes the cast n longer, keeps the old cells
\* of every field and makes every appended cell the fill value.
C7_ExtendPadsWithFill ==
    (last.op = "extend" /\ last.ret = None) =>
        /\ After.len = Before.len + last.arg[1]
        /\ \A k \in DOMAIN Before.data :
              LET old == Len(Before.data[k])
              IN  /\ Len(After.data[k]) = old + last.arg[1]
                  /\ SubSeq(After.data[k], 1, old) = Before.data[k]
                  /\ \A i \in 1..last.arg[1] : After.data[k][old + i] = last.arg[2]

\* What regrid promises of the cast it returned.
RegridResult ==
    LET r == heap[last.ret[2]]
    IN  /\ r.data[r.primarykey] = last.arg
        /\ r.len = Len(last.arg)
        /\ \A k \in DOMAIN r.data : Len(r.data[k]) = Len(last.arg)
        /\ r.fields = Before.fields
        /\ DOMAIN r.data = DOMAIN Before.data
        /\ dicts[r.props] = last.dicts0[Before.props]
        /\ After = Before
        /\ dicts[After.props] = last.dicts0[Before.props]

\* The cast that the target of the last call was copied from is as before the call.
SourceUntouched ==
    LET o == origin[last.cast]
    IN  /\ heap[o] = last.heap0[o]
        /\ dicts[heap[o].props] = last.dicts0[heap[o].props]

\* C8: regrid returns a new cast on the given levels, every field as long as
\* the levels, with the field list and properties of the original, and the
\* original is changed neither by the call nor by a later assignment,
\* _addkeydata or extend on the returned cast.
C8_RegridReturnsNewCast ==
    /\ (last.op = "regrid" /\ last.ret[1] = "cast") => RegridResult
    /\ (last.op \in {"setitem", "addkeydata", "extend"} /\ origin[last.cast] # 0)
           => SourceUntouched

\* C8 witness: a property was assigned on a cast that regrid returned, whose
\* length differs from its original's and which holds a value interpolated
\* half-way between two levels of the original.
C8_Witness ==
    /\ last.op = "setitem" /\ last.arg[1] = "num"
    /\ origin[last.cast] # 0
    /\ heap[origin[last.cast]].len # After.len
    /\ \E k \in DOMAIN After.data : \E i \in 1..After.len :
          ~IsNaN(After.data[k][i]) /\ After.data[k][i][2] = 2


\* What defray promises of the collection it returned: as many casts, in the
\* same order, each as long as the longest cast given, with the cells it had
\* and the fill value in the cells added, and the casts given left as they were.
DefrayResult ==
    LET new == last.ret[2]
        n   == MaxCastLen(last.heap0, coll)
    IN  /\ Len(new) = Len(coll)
        /\ \A i \in 1..Len(coll) :
              LET old == last.heap0[coll[i]]
                  c   == heap[new[i]]
              IN  /\ c.len = n
                  /\ c.fields = old.fields
                  /\ \A k \in DOMAIN old.data :
                        /\ Len(c.data[k]) = n
                        /\ SubSeq(c.data[k], 1, old.len) = old.data[k]
                        /\ \A j \in (old.len + 1)..n : c.data[k][j] = last.arg
                  /\ heap[coll[i]] = old
                  /\ dicts[old.props] = last.dicts0[old.props]

\* C9: defray(fill) on a collection that is not empty returns a new collection
\* of as many casts in the same order, each padded with the fill value to the
\* length of the longest, and changes no cast of the collection, neither by the
\* call nor by a later assignment or extend on a cast it returned.
C9_DefrayPadsCopies ==
    /\ (last.op = "defray" /\ last.ret[1] = "coll") => DefrayResult
    /\ (last.op \in {"setitem", "extend"} /\ origin[last.cast] # 0) => SourceUntouched

\* C10: indexing a collection of any size, the empty one included, with a
\* string gives the matrix of one column per cast when every cast has the key
\* in its data, else the list of the property values when every cast has the
\* key in its properties, else raises KeyError; no cast changes.
C10_StringKeyLookup ==
    last.op = "collgetitem" =>
        /\ last.ret =
              IF \A i \in 1..Len(coll) : last.key \in DOMAIN heap[coll[i]].data
              THEN <<"matrix", [i \in 1..Len(coll) |-> heap[coll[i]].data[last.key]]>>
              ELSE IF \A i \in 1..Len(coll) :
                         last.key \in DOMAIN dicts[heap[coll[i]].props]
              THEN <<"list", [i \in 1..Len(coll) |-> dicts[heap[coll[i]].props][last.key]]>>
              ELSE <<"error", "KeyError">>
        /\ heap = last.heap0
        /\ dicts = last.dicts0

\* C11: when every cast of a collection has the field, the matrix asarray
\* returns has as many rows as the longest cast and one column per cast, in
\* order; column i holds the values of cast i in its first len(cast i) rows and
\* the missing value below; no cast changes.
C11_AsArrayPadsColumns ==
    (/\ last.op = "asarray" /\ last.ret[1] = "matrix"
     /\ \A i \in 1..Len(coll) : last.key \in DOMAIN heap[coll[i]].data) =>
        /\ Len(last.ret[2]) = Len(coll)
        /\ \A i \in 1..Len(coll) :
              LET c   == heap[coll[i]]
                  col == last.ret[2][i]
              IN  /\ Len(col) = MaxCastLen(heap, coll)
                  /\ \A j \in 1..c.len : col[j] = c.data[last.key][j]
                  /\ \A r \in (c.len + 1)..Len(col) : IsNaN(col[r])
        /\ heap = last.heap0
        /\ dicts = last.dicts0

\* C11 witness: asarray("temp") on two casts of different lengths whose
\* temperatures are all valid returned a matrix whose first column ends with a
\* missing value.
C11_Witness ==
    /\ last.op = "asarray" /\ last.key = "temp" /\ last.ret[1] = "matrix"
    /\ Len(coll) = 2
    /\ heap[coll[1]].len < heap[coll[2]].len
    /\ \A j \in 1..heap[coll[1]].len : ~IsNaN(heap[coll[1]].data["temp"][j])
    /\ IsNaN(last.ret[2][1][heap[coll[2]].len])

\* The coordinates of a cast.
CoordsOfCast(id) == dicts[heap[id].props]["coordinates"]

\* C12: the collection thermal_wind_inner returns for k >= 2 casts has k-1
\* casts, and the coordinates of the i-th are half the sum of the coordinates
\* of casts i and i+1 of the input, longitude and latitude each.
C12_InnerMidpoints ==
    (last.op = "thermal_wind_inner" /\ last.ret[1] = "coll" /\ Len(coll) >= 2) =>
        /\ Len(last.ret[2]) = Len(coll) - 1
        /\ \A i \in 1..Len(last.ret[2]) :
              LET m  == CoordsOfCast(last.ret[2][i])
                  c1 == CoordsOfCast(coll[i])
                  c2 == CoordsOfCast(coll[i + 1])
              IN  /\ m[1] = "coords"
                  /\ Add(m[2], m[2]) = Add(c1[2], c2[2])
                  /\ Add(m[3], m[3]) = Add(c1[3], c2[3])

\* C12 witness: thermal_wind_inner on three casts returned two casts at two
\* different positions.
C12_Witness ==
    /\ last.op = "thermal_wind_inner" /\ last.ret[1] = "coll"
    /\ Len(coll) = 3 /\ Len(last.ret[2]) = 2
    /\ CoordsOfCast(last.ret[2][1]) # CoordsOfCast(last.ret[2][2])

\* C13: thermal_wind_inner, given a density field or computing it, leaves
\* every cast of its input with the field list, the data and the properties it
\* had before the call.
C13_InnerLeavesInput ==
    (last.op = "thermal_wind_inner" /\ last.ret[1] = "coll") =>
        \A i \in 1..Len(coll) :
            /\ heap[coll[i]] = last.heap0[coll[i]]
            /\ dicts[heap[coll[i]].props] = last.dicts0[last.heap0[coll[i]].props]

\* The name the add_field policy gives a new field `key` of cast c when nothing
\* may be overwritten: key itself when free, else the first free of key_2, ...
FreeName(c, key) ==
    IF key \notin DOMAIN c.data THEN key
    ELSE LET free == {j \in 2..(MaxCollOps + 3) :
                         (key \o "_" \o ToString(j)) \notin DOMAIN c.data}
         IN  key \o "_" \o ToString(CHOOSE j \in free : \A q \in free : j <= q)

\* The casts of the collection had one length before the last call.
MatchingGrids ==
    \A i, j \in 1..Len(coll) : last.heap0[coll[i]].len = last.heap0[coll[j]].len

\* C14: thermal_wind with overwrite=False on casts of one length keeps the
\* vector of every field a cast had and gives every cast a new shear field and
\* a new velocity field, named "dudz" and "u" or, where taken, by the next free
\* suffixed name; a second call adds "dudz_2" and "u_2".
C14_ThermalWindAddsFields ==
    (/\ last.op = "thermal_wind" /\ last.ret = None /\ ~last.arg[2]
     /\ MatchingGrids) =>
        \A i \in 1..Len(coll) :
            LET b == last.heap0[coll[i]]
                a == heap[coll[i]]
            IN  /\ \A k \in DOMAIN b.data : k \in DOMAIN a.data /\ a.data[k] = b.data[k]
                /\ FreeName(b, "dudz") \in DOMAIN a.data \ DOMAIN b.data
                /\ FreeName(b, "u") \in DOMAIN a.data \ DOMAIN b.data

\* C14 witness: a second thermal_wind with overwrite=False on two casts that
\* had "u" and "dudz" added "u_2" and "dudz_2".
C14_Witness ==
    /\ last.op = "thermal_wind" /\ last.ret = None /\ ~last.arg[2]
    /\ MatchingGrids /\ Len(coll) >= 2
    /\ \A i \in 1..Len(coll) :
          /\ {"u", "dudz"} \subseteq DOMAIN last.heap0[coll[i]].data
          /\ {"u_2", "dudz_2"} \cap DOMAIN last.heap0[coll[i]].data = {}
          /\ {"u_2", "dudz_2"} \subseteq DOMAIN heap[coll[i]].data

\* The last call was thermal_wind or thermal_wind_inner with rhokey=None.
AutoDensityCall ==
    last.op \in {"thermal_wind", "thermal_wind_inner"} /\ last.arg[1] = None

\* The names add_density has for the density of the casts, as they were before
\* the last call, differ.
DensityNamesDiffer ==
    \E i, j \in 1..Len(coll) :
        FreeName(last.heap0[coll[i]], "rho") # FreeName(last.heap0[coll[j]], "rho")

\* add_density succeeds on every cast, as they were before the last call.
DensityComputable ==
    \A i \in 1..Len(coll) :
        AddDensity(last.heap0[coll[i]], last.dicts0[last.heap0[coll[i]].props]).err = ""

\* No cast of the collection got a field in the last call but its density.
OnlyDensityAdded ==
    \A i \in 1..Len(coll) :
        DOMAIN heap[coll[i]].data \ DOMAIN last.heap0[coll[i]].data
            \subseteq {FreeName(last.heap0[coll[i]], "rho")}

\* C15 as stated: thermal_wind and thermal_wind_inner with rhokey=None fail
\* exactly when the density names of the casts differ, and then add no shear
\* and no velocity field.
C15_FailsIffNamesDiffer ==
    AutoDensityCall =>
        /\ (last.ret # None /\ last.ret[1] = "error") <=> DensityNamesDiffer
        /\ DensityNamesDiffer => OnlyDensityAdded

\* C15 amended: thermal_wind and thermal_wind_inner with rhokey=None raise
\* NameError exactly when add_density succeeds on every cast and the names it
\* returns differ, and then add no shear and no velocity field.
C15_NameErrorIffNamesDiffer ==
    AutoDensityCall =>
        /\ last.ret = <<"error", "NameError">>
              <=> (DensityComputable /\ DensityNamesDiffer)
        /\ (DensityComputable /\ DensityNamesDiffer) => OnlyDensityAdded

\* C15 witness: thermal_wind_inner with rhokey=None raised NameError on two
\* casts of which only the second had a field "rho".
C15_Witness ==
    /\ AutoDensityCall /\ last.op = "thermal_wind_inner"
    /\ last.ret = <<"error", "NameError">>
    /\ Len(coll) = 2
    /\ "rho" \notin DOMAIN last.heap0[coll[1]].data
    /\ "rho" \in DOMAIN last.heap0[coll[2]].data
    /\ "rho" \in DOMAIN heap[coll[1]].data

\* The density vector add_depth was given by name, as it was before the call.
GivenRho == Before.data[last.arg[2]]

\* The index of the first valid value of a vector that has one.
FirstValid(v) == CHOOSE i \in 1..Len(v) : ~IsNaN(v[i]) /\ \A q \in 1..(i - 1) : IsNaN(v[q])

\* The density with its leading missing values replaced by the first valid one.
BackFilled(v) == [i \in 1..Len(v) |-> IF i < FirstValid(v) THEN v[FirstValid(v)] ELSE v[i]]

\* The depth integrated from a density vector without leading missing values.
DepthFrom(pres, rho) ==
    [i \in 1..Len(rho) |->
        CumSum([q \in 1..Len(rho) |->
                   Mul(Div(PresSteps(pres)[q], Mul(rho[q], G)), TenThousand)], i)]

\* C16: add_depth, given a density of n values that starts with j < n missing
\* values and then a valid one, integrates the density with those j values
\* replaced by the first valid value, adds the result as a new field of n
\* values, and returns its name - also when the first valid value is the last.
C16_DepthBackFills ==
    (/\ last.op = "add_depth" /\ last.arg # None
     /\ \E i \in 1..Len(GivenRho) : ~IsNaN(GivenRho[i])) =>
        /\ last.ret[1] = "key"
        /\ last.ret[2] \in DOMAIN After.data
        /\ Len(After.data[last.ret[2]]) = Before.len
        /\ After.data[last.ret[2]] = DepthFrom(Before.data["pres"], BackFilled(GivenRho))

\* C20: add_depth(rhokey) with the name of a density field leaves every field
\* the cast had, the density among them, with the values it had, and changes
\* nothing of the cast but for the one new depth field.
C20_DepthOnlyAdds ==
    (last.op = "add_depth" /\ last.arg # None /\ last.ret[1] = "key") =>
        /\ last.ret[2] \notin DOMAIN Before.data
        /\ DOMAIN After.data = DOMAIN Before.data \cup {last.ret[2]}
        /\ \A k \in DOMAIN Before.data : After.data[k] = Before.data[k]
        /\ After.fields = Append(Before.fields, last.ret[2])
        /\ After.len = Before.len
        /\ dicts = last.dicts0

\* C17: add_bathymetry does not abort on a cast without coordinates: that cast
\* gets a missing value as its depth property and every other cast of the
\* collection, those after it too, gets the depth looked up at its position.
C17_BathymetrySkipsNoCoords ==
    last.op = "add_bathymetry" =>
        /\ last.ret = None
        /\ \A i \in 1..Len(coll) :
              LET d0 == last.dicts0[heap[coll[i]].props]
                  d  == dicts[heap[coll[i]].props]
              IN  /\ "depth" \in DOMAIN d
                  /\ d["depth"] = IF d0["coordinates"] = None THEN Scalar(NaN)
                                  ELSE Scalar(Atxy(d0["coordinates"][2], d0["coordinates"][3]))

\* The names of the fields a cast of the collection got in the last call.
NewFields(i) == DOMAIN heap[coll[i]].data \ DOMAIN last.heap0[coll[i]].data

\* The field names that are a density name: "rho", "rho_2", ...
DensityNames == {"rho"} \cup {"rho_" \o ToString(j) : j \in 2..(2 * MaxCollOps + 2)}

\* C19: thermal_wind adds no density field to a cast when it is given rhokey,
\* and exactly one per cast when it computes the density (rhokey=None).
C19_OneDensityPerCast ==
    (last.op = "thermal_wind" /\ last.ret = None) =>
        \A i \in 1..Len(coll) :
            Cardinality(NewFields(i) \cap DensityNames)
                = IF last.arg[1] = None THEN 1 ELSE 0

\* Cast i of the collection has property `key` with a value equal to v.
HasValue(i, key, v) ==
    LET d == dicts[heap[coll[i]].props]
    IN  key \in DOMAIN d /\ PyEq(d[key], v)

\* Cast i of the collection has property `key` with a value among the
\* candidates asked for (one value, or a tuple of them).
HasOneOf(i, key, values) ==
    IF values[1] = "tuple"
    THEN \E j \in 1..Len(values[2]) : HasValue(i, key, values[2][j])
    ELSE HasValue(i, key, values)

\* C18: castwhere returns the first cast of the collection that has the
\* property with a value equal to the one asked for, castswhere the casts, in
\* order, that have the property with a value among those asked for; a cast
\* without the property is never returned; no cast changes.
C18_WhereMatchesProperty ==
    /\ last.op = "castwhere" =>
          LET m == {i \in 1..Len(coll) : HasValue(i, last.key, last.arg)}
          IN  /\ m # {} => last.ret = <<"cast", coll[CHOOSE i \in m : \A j \in m : i <= j]>>
              /\ m = {} => last.ret[1] # "cast"
              /\ heap = last.heap0 /\ dicts = last.dicts0
    /\ last.op = "castswhere" =>
          /\ last.ret[1] = "coll"
          /\ \E pos \in [1..Len(last.ret[2]) -> 1..Len(coll)] :
                /\ \A a, b \in DOMAIN pos : a < b => pos[a] < pos[b]
                /\ \A a \in DOMAIN pos : last.ret[2][a] = coll[pos[a]]
                /\ {pos[a] : a \in DOMAIN pos}
                      = {i \in 1..Len(coll) : HasOneOf(i, last.key, last.arg)}
          /\ heap = last.heap0 /\ dicts = last.dicts0

====
